---- MODULE Spec2Model ----
(***************************************************************************)
(* Model of GenAI-2-04.py: a text file is summarised once as a whole, then *)
(* paragraph by paragraph, the paragraph summaries are summarised again    *)
(* and the result, limited to 30% of the source length, is written to the  *)
(* output file.                                                            *)
(*                                                                         *)
(* A Python str is modelled as a sequence of one-character strings.        *)
(* Indices of the Python code are 0-based; the operators below keep the    *)
(* 0-based results of the code (rfind returns -1 when nothing is found).   *)
(***************************************************************************)
EXTENDS Integers, Sequences, FiniteSets, TLC

VARIABLES
    pc,                         \* position of main
    inputFile,                  \* input.txt: [readable, content]
    outputFile,                 \* output.txt: [exists, chunks]
    outputBefore,               \* output.txt as it was before the run
    text,                       \* main: text
    summarizer,                 \* main: summarizer (TRUE once instantiated)
    calls,                      \* history of the summarizer invocations
    summary_single,             \* main: summary_single
    paragraphs,                 \* main: paragraphs
    summaries,                  \* main: summaries (as the comprehension builds it)
    combined_summary_text,      \* main: combined_summary_text
    summary_recursive,          \* main: summary_recursive
    max_length,                 \* main: max_length
    summary_recursive_limited,  \* main: summary_recursive_limited
    exitCode,                   \* process exit status, -1 while running
    uncaught,                   \* TRUE when an exception left main uncaught
    failedStage,                \* the stage whose failure ended the run
    fn,                         \* which pure function a function run applies
    fnText,                     \* argument text of the function run
    fnMax,                      \* argument max_length of the function run
    fnOut                       \* result of the function run

vars == <<pc, inputFile, outputFile, outputBefore, text, summarizer, calls, summary_single,
          paragraphs, summaries, combined_summary_text, summary_recursive,
          max_length, summary_recursive_limited, exitCode, uncaught,
          failedStage, fn, fnText, fnMax, fnOut>>

fnVars == <<fn, fnText, fnMax, fnOut, outputBefore>>

----------------------------------------------------------------------------
(* Bounds *)

\* longest argument text of a pure-function run
MaxLen == 7

\* most blank-line separated segments of an input file
MaxSegs == 3

----------------------------------------------------------------------------
(* Characters and strings *)

SP == " "
NL == "\n"
TAB == "\t"

\* the characters str.strip() removes that occur in the model
Whitespace == {SP, NL, TAB}

\* characters of the argument texts of the limit_text_length runs
Alphabet == {"a", SP, NL}

\* characters of the argument texts of the split_text_into_paragraphs runs
SplitAlphabet == {"a", SP, NL, TAB}

MinOf(S) == CHOOSE x \in S : \A y \in S : x <= y

MaxOf(S) == CHOOSE x \in S : \A y \in S : x >= y

\* all strings over A of length at most n
StringsUpTo(A, n) == UNION {[1..k -> A] : k \in 0..n}

\* Python text[:n]
SliceTo(s, n) ==
    IF n >= 0
    THEN SubSeq(s, 1, IF n < Len(s) THEN n ELSE Len(s))
    ELSE SubSeq(s, 1, IF Len(s) + n > 0 THEN Len(s) + n ELSE 0)

\* s.find(c) in the place of s.rfind(c): the first occurrence
find_first(s, c) ==
    LET idx == {i \in 1..Len(s) : s[i] = c}
    IN  IF idx = {} THEN -1 ELSE MinOf(idx) - 1

\* Python s.rfind(c): 0-based index of the last occurrence, -1 when absent
rfind(s, c) ==
    LET idx == {i \in 1..Len(s) : s[i] = c}
    IN  IF idx = {} THEN -1 ELSE MaxOf(idx) - 1

\* Python s.strip()
strip(s) ==
    LET idx == {i \in 1..Len(s) : s[i] \notin Whitespace}
    IN  IF idx = {} THEN <<>> ELSE SubSeq(s, MinOf(idx), MaxOf(idx))

RECURSIVE split(_)
\* Python s.split('\n\n'): delimiters are matched left to right, not overlapping
split(s) ==
    LET idx == {i \in 1..(Len(s) - 1) : s[i] = NL /\ s[i + 1] = NL}
    IN  IF idx = {} THEN <<s>>
        ELSE LET i == MinOf(idx)
             IN  <<SubSeq(s, 1, i - 1)>> \o split(SubSeq(s, i + 2, Len(s)))

RECURSIVE join(_, _)
\* Python sep.join(ss)
join(sep, ss) ==
    IF ss = <<>> THEN <<>>
    ELSE IF Len(ss) = 1 THEN ss[1]
    ELSE ss[1] \o sep \o join(sep, Tail(ss))

----------------------------------------------------------------------------
(* The pure functions of the program *)

NonBlank(p) == strip(p) # <<>>

\* the comprehension without the strip() of the kept segments
split_keeps_untrimmed(t) == SelectSeq(split(t), NonBlank)

split_text_into_paragraphs(t) ==
    LET kept == SelectSeq(split(t), NonBlank)
    IN  [i \in 1..Len(kept) |-> strip(kept[i])]

\* the slice taken one character too long
limit_off_by_one(t, m) ==
    IF Len(t) <= m THEN t
    ELSE LET trimmed == SliceTo(t, m + 1)
             last_space == rfind(trimmed, SP)
         IN  IF last_space = -1 THEN trimmed
             ELSE SliceTo(trimmed, last_space)

limit_text_length(t, m) ==
    IF Len(t) <= m THEN t
    ELSE LET trimmed == SliceTo(t, m)
             last_space == rfind(trimmed, SP)
         IN  IF last_space = -1 THEN trimmed
             ELSE SliceTo(trimmed, last_space)

----------------------------------------------------------------------------
(* int(len(text) * 0.3): the product is an IEEE-754 double                 *)

\* The double nearest to 0.3 is C03 / 2^54 with
\* C03 = 5404319552844595 = Limb2 * 2^36 + Limb1 * 2^18 + Limb0.
LimbBase == 262144

Limb0 == 209715

Limb1 == 52428

Limb2 == 78643

RECURSIVE BitLen(_)
\* number of binary digits of n
BitLen(n) == IF n = 0 THEN 0 ELSE 1 + BitLen(n \div 2)

RECURSIVE Pow2(_)
Pow2(k) == IF k = 0 THEN 1 ELSE 2 * Pow2(k - 1)

\* math.ceil(n * 0.3) in the place of int(n * 0.3)
ceil_mul_0_3(n) == (3 * n + 9) \div 10

\* int(n * 0.3) for 0 <= n < 2^13. The exact product n * C03 is computed
\* in limbs of 18 bits; its bits from 2^54 up are the integer part q3 and
\* the three low limbs the fraction. The double product keeps 53
\* significant bits, rounded to nearest: it reaches the next integer exactly
\* when the fraction is within half a unit of the last place of 1, and
\* int() then truncates to q3 + 1 instead of q3.
int_mul_0_3(n) ==
    LET m0 == n * Limb0
        m1 == n * Limb1 + (m0 \div LimbBase)
        m2 == n * Limb2 + (m1 \div LimbBase)
        q0 == m0 % LimbBase
        q1 == m1 % LimbBase
        q2 == m2 % LimbBase
        q3 == m2 \div LimbBase
        roundsUp == /\ q2 = LimbBase - 1
                    /\ q1 = LimbBase - 1
                    /\ q0 >= LimbBase - Pow2(BitLen(q3))
    IN  IF roundsUp THEN q3 + 1 ELSE q3

----------------------------------------------------------------------------
(* Files and the summarizer *)

\* the blank-line separated segments the input files are built from
Segments == { <<>>,
              <<SP, "a", "b", TAB>>,
              <<"a", "b", "c", SP, "d", "e">> }

\* the contents input.txt may have
InputTexts ==
    { join(<<NL, NL>>, segs) : segs \in UNION {[1..k -> Segments] : k \in 1..MaxSegs} }

\* the strings the model lets the summarization model return
Summaries == { <<>>,
               <<"x", "y", SP, "z">>,
               <<"x", "y", "z", SP, "x", "y", SP, "z">> }

\* result of one summarizer invocation: a summary, or an exception
Outcomes == {[ok |-> TRUE, value |-> s] : s \in Summaries}
                \cup {[ok |-> FALSE, value |-> <<>>]}

\* the four strings main writes to output.txt, in order
Header1 == <<"=", "1", NL>>

Header2 == <<"=", "2", NL>>

ReportChunks(single, limited) ==
    <<Header1, single \o <<NL, NL>>, Header2, limited \o <<NL>>>>

\* content output.txt may have before the run
OldOutputs == { [exists |-> FALSE, chunks |-> <<>>],
                [exists |-> TRUE, chunks |-> <<<<"o", "l", "d">>>>] }

\* read_text_file without its check for an empty file
read_text_file_unchecked(f) ==
    IF f.readable
    THEN [ok |-> TRUE, text |-> f.content]
    ELSE [ok |-> FALSE, text |-> <<>>]

read_text_file(f) ==
    IF f.readable /\ strip(f.content) # <<>>
    THEN [ok |-> TRUE, text |-> f.content]
    ELSE [ok |-> FALSE, text |-> <<>>]

----------------------------------------------------------------------------
(* main *)

\* the locals of main before main has run
NothingRun ==
    /\ text = <<>>
    /\ summarizer = FALSE
    /\ calls = <<>>
    /\ summary_single = <<>>
    /\ paragraphs = <<>>
    /\ summaries = <<>>
    /\ combined_summary_text = <<>>
    /\ summary_recursive = <<>>
    /\ max_length = 0
    /\ summary_recursive_limited = <<>>
    /\ exitCode = -1
    /\ uncaught = FALSE
    /\ failedStage = "none"

Init ==
    /\ pc = "read"
    /\ inputFile \in {[readable |-> TRUE, content |-> t] : t \in InputTexts}
                        \cup {[readable |-> FALSE, content |-> <<>>]}
    /\ outputFile \in OldOutputs
    /\ outputBefore = outputFile
    /\ NothingRun
    /\ fn = "main"
    /\ fnText = <<>>
    /\ fnMax = 0
    /\ fnOut = <<>>

\* sys.exit(code) in the handler of stage
Exit(code, stage) ==
    /\ pc' = "done"
    /\ exitCode' = code
    /\ failedStage' = stage

ReadInput ==
    /\ pc = "read"
    /\ LET r == read_text_file(inputFile)
       IN  IF r.ok
           THEN /\ text' = r.text
                /\ pc' = "create"
                /\ UNCHANGED <<exitCode, failedStage>>
           ELSE /\ Exit(1, "read")
                /\ UNCHANGED text
    /\ UNCHANGED <<inputFile, outputFile, summarizer, calls, summary_single,
                   paragraphs, summaries, combined_summary_text,
                   summary_recursive, max_length, summary_recursive_limited,
                   uncaught>>
    /\ UNCHANGED fnVars

\* create_summarizer() is called outside any try: an exception leaves main
\* and the interpreter ends the process with status 1
CreateSummarizer ==
    /\ pc = "create"
    /\ \E ok \in BOOLEAN :
          IF ok
          THEN /\ summarizer' = TRUE
               /\ pc' = "single"
               /\ UNCHANGED <<exitCode, failedStage, uncaught>>
          ELSE /\ Exit(1, "create")
               /\ uncaught' = TRUE
               /\ UNCHANGED summarizer
    /\ UNCHANGED <<inputFile, outputFile, text, calls, summary_single,
                   paragraphs, summaries, combined_summary_text,
                   summary_recursive, max_length, summary_recursive_limited>>
    /\ UNCHANGED fnVars

\* main writing the first section of the report as soon as it has it
SummarizeSingle_WritesEarly ==
    /\ pc = "single"
    /\ \E r \in Outcomes :
          /\ calls' = Append(calls, [arg |-> text, out |-> r])
          /\ IF r.ok
             THEN /\ summary_single' = r.value
                  /\ outputFile' = [exists |-> TRUE,
                                    chunks |-> <<Header1, r.value \o <<NL, NL>>>>]
                  /\ pc' = "split"
                  /\ UNCHANGED <<exitCode, failedStage>>
             ELSE /\ Exit(2, "single")
                  /\ UNCHANGED <<summary_single, outputFile>>
    /\ UNCHANGED <<inputFile, text, summarizer, paragraphs,
                   summaries, combined_summary_text, summary_recursive,
                   max_length, summary_recursive_limited, uncaught>>
    /\ UNCHANGED fnVars

SummarizeSingle ==
    /\ pc = "single"
    /\ \E r \in Outcomes :
          /\ calls' = Append(calls, [arg |-> text, out |-> r])
          /\ IF r.ok
             THEN /\ summary_single' = r.value
                  /\ pc' = "split"
                  /\ UNCHANGED <<exitCode, failedStage>>
             ELSE /\ Exit(2, "single")
                  /\ UNCHANGED summary_single
    /\ UNCHANGED <<inputFile, outputFile, text, summarizer, paragraphs,
                   summaries, combined_summary_text, summary_recursive,
                   max_length, summary_recursive_limited, uncaught>>
    /\ UNCHANGED fnVars

SplitParagraphs ==
    /\ pc = "split"
    /\ paragraphs' = split_text_into_paragraphs(text)
    /\ pc' = "paragraphs"
    /\ UNCHANGED <<inputFile, outputFile, text, summarizer, calls,
                   summary_single, summaries, combined_summary_text,
                   summary_recursive, max_length, summary_recursive_limited,
                   exitCode, uncaught, failedStage>>
    /\ UNCHANGED fnVars

\* the handler of the paragraph stage exiting with the code of the stage before
SummarizeParagraph_ExitsTwo ==
    /\ pc = "paragraphs"
    /\ Len(summaries) < Len(paragraphs)
    /\ \E r \in Outcomes :
          /\ calls' = Append(calls, [arg |-> paragraphs[Len(summaries) + 1], out |-> r])
          /\ IF r.ok
             THEN /\ summaries' = Append(summaries, r.value)
                  /\ UNCHANGED <<pc, exitCode, failedStage>>
             ELSE /\ Exit(2, "paragraphs")
                  /\ summaries' = <<>>
    /\ UNCHANGED <<inputFile, outputFile, text, summarizer, summary_single,
                   paragraphs, combined_summary_text, summary_recursive,
                   max_length, summary_recursive_limited, uncaught>>
    /\ UNCHANGED fnVars

\* one iteration of [summarize_text(summarizer, p) for p in paragraphs]
SummarizeParagraph ==
    /\ pc = "paragraphs"
    /\ Len(summaries) < Len(paragraphs)
    /\ \E r \in Outcomes :
          /\ calls' = Append(calls, [arg |-> paragraphs[Len(summaries) + 1], out |-> r])
          /\ IF r.ok
             THEN /\ summaries' = Append(summaries, r.value)
                  /\ UNCHANGED <<pc, exitCode, failedStage>>
             ELSE /\ Exit(3, "paragraphs")
                  /\ summaries' = <<>>
    /\ UNCHANGED <<inputFile, outputFile, text, summarizer, summary_single,
                   paragraphs, combined_summary_text, summary_recursive,
                   max_length, summary_recursive_limited, uncaught>>
    /\ UNCHANGED fnVars

\* "".join(summaries) in the place of " ".join(summaries)
CombineSummaries_NoSeparator ==
    /\ pc = "paragraphs"
    /\ Len(summaries) = Len(paragraphs)
    /\ combined_summary_text' = join(<<>>, summaries)
    /\ pc' = "recursive"
    /\ UNCHANGED <<inputFile, outputFile, text, summarizer, calls,
                   summary_single, paragraphs, summaries, summary_recursive,
                   max_length, summary_recursive_limited, exitCode, uncaught,
                   failedStage>>
    /\ UNCHANGED fnVars

CombineSummaries ==
    /\ pc = "paragraphs"
    /\ Len(summaries) = Len(paragraphs)
    /\ combined_summary_text' = join(<<SP>>, summaries)
    /\ pc' = "recursive"
    /\ UNCHANGED <<inputFile, outputFile, text, summarizer, calls,
                   summary_single, paragraphs, summaries, summary_recursive,
                   max_length, summary_recursive_limited, exitCode, uncaught,
                   failedStage>>
    /\ UNCHANGED fnVars

\* the handler of the recursive stage exiting with the code of the stage before
SummarizeRecursive_ExitsThree ==
    /\ pc = "recursive"
    /\ \E r \in Outcomes :
          /\ calls' = Append(calls, [arg |-> combined_summary_text, out |-> r])
          /\ IF r.ok
             THEN /\ summary_recursive' = r.value
                  /\ pc' = "limit"
                  /\ UNCHANGED <<exitCode, failedStage>>
             ELSE /\ Exit(3, "recursive")
                  /\ UNCHANGED summary_recursive
    /\ UNCHANGED <<inputFile, outputFile, text, summarizer, summary_single,
                   paragraphs, summaries, combined_summary_text, max_length,
                   summary_recursive_limited, uncaught>>
    /\ UNCHANGED fnVars

SummarizeRecursive ==
    /\ pc = "recursive"
    /\ \E r \in Outcomes :
          /\ calls' = Append(calls, [arg |-> combined_summary_text, out |-> r])
          /\ IF r.ok
             THEN /\ summary_recursive' = r.value
                  /\ pc' = "limit"
                  /\ UNCHANGED <<exitCode, failedStage>>
             ELSE /\ Exit(4, "recursive")
                  /\ UNCHANGED summary_recursive
    /\ UNCHANGED <<inputFile, outputFile, text, summarizer, summary_single,
                   paragraphs, summaries, combined_summary_text, max_length,
                   summary_recursive_limited, uncaught>>
    /\ UNCHANGED fnVars

LimitSummary ==
    /\ pc = "limit"
    /\ max_length' = int_mul_0_3(Len(text))
    /\ summary_recursive_limited' = limit_text_length(summary_recursive, max_length')
    /\ pc' = "write"
    /\ UNCHANGED <<inputFile, outputFile, text, summarizer, calls,
                   summary_single, paragraphs, summaries,
                   combined_summary_text, summary_recursive, exitCode,
                   uncaught, failedStage>>
    /\ UNCHANGED fnVars

\* the with-block writing output.txt. open(..., "w") either fails and leaves
\* the file as it was, or truncates it; a later failure (a write, or the
\* flush at close) leaves the chunks written so far.
WriteOutput ==
    /\ pc = "write"
    /\ LET report == ReportChunks(summary_single, summary_recursive_limited)
       IN  \/ /\ UNCHANGED outputFile
              /\ Exit(5, "write")
           \/ \E k \in 0..Len(report) :
                 /\ outputFile' = [exists |-> TRUE, chunks |-> SubSeq(report, 1, k)]
                 /\ Exit(5, "write")
           \/ /\ outputFile' = [exists |-> TRUE, chunks |-> report]
              /\ Exit(0, "none")
    /\ UNCHANGED <<inputFile, text, summarizer, calls, summary_single,
                   paragraphs, summaries, combined_summary_text,
                   summary_recursive, max_length, summary_recursive_limited,
                   uncaught>>
    /\ UNCHANGED fnVars

Next ==
    \/ ReadInput
    \/ CreateSummarizer
    \/ SummarizeSingle
    \/ SplitParagraphs
    \/ SummarizeParagraph
    \/ CombineSummaries
    \/ SummarizeRecursive
    \/ LimitSummary
    \/ WriteOutput

Spec == Init /\ [][Next]_vars

----------------------------------------------------------------------------
(* Runs of the pure functions on their own *)

HelloWorldFoo ==
    <<"h", "e", "l", "l", "o", SP, "w", "o", "r", "l", "d", SP, "f", "o", "o">>

HelloWorld == <<"h", "e", "l", "l", "o", "w", "o", "r", "l", "d">>

Hello == <<"h", "e", "l", "l", "o">>

\* argument texts of the limit_text_length runs
LimitTexts == StringsUpTo(Alphabet, MaxLen) \cup {HelloWorldFoo, HelloWorld}

\* argument max_length of the limit_text_length runs
LimitLengths == 0..(MaxLen + 1) \cup {Len(HelloWorld), Len(HelloWorldFoo) - 4,
                                      Len(HelloWorldFoo), Len(HelloWorldFoo) + 1}

ABC == <<"A", NL, NL, "B", NL, NL, "C">>

BlankThenA == <<SP, SP, NL, NL, SP, "A", SP, NL, NL>>

\* argument texts of the split_text_into_paragraphs runs
SplitTexts == StringsUpTo(SplitAlphabet, MaxLen) \cup {ABC, BlankThenA}

InitLimit ==
    /\ pc = "call"
    /\ fn = "limit_text_length"
    /\ fnText \in LimitTexts
    /\ fnMax \in LimitLengths
    /\ fnOut = <<>>
    /\ inputFile = [readable |-> FALSE, content |-> <<>>]
    /\ outputFile = [exists |-> FALSE, chunks |-> <<>>]
    /\ outputBefore = outputFile
    /\ NothingRun

ApplyLimit ==
    /\ pc = "call"
    /\ fn = "limit_text_length"
    /\ fnOut' = limit_text_length(fnText, fnMax)
    /\ pc' = "returned"
    /\ UNCHANGED <<inputFile, outputFile, outputBefore, text, summarizer,
                   calls, summary_single, paragraphs, summaries,
                   combined_summary_text, summary_recursive, max_length,
                   summary_recursive_limited, exitCode, uncaught, failedStage,
                   fn, fnText, fnMax>>

NextLimit == ApplyLimit

SpecLimit == InitLimit /\ [][NextLimit]_vars

InitSplit ==
    /\ pc = "call"
    /\ fn = "split_text_into_paragraphs"
    /\ fnText \in SplitTexts
    /\ fnMax = 0
    /\ fnOut = <<>>
    /\ inputFile = [readable |-> FALSE, content |-> <<>>]
    /\ outputFile = [exists |-> FALSE, chunks |-> <<>>]
    /\ outputBefore = outputFile
    /\ NothingRun

ApplySplit ==
    /\ pc = "call"
    /\ fn = "split_text_into_paragraphs"
    /\ fnOut' = split_text_into_paragraphs(fnText)
    /\ pc' = "returned"
    /\ UNCHANGED <<inputFile, outputFile, outputBefore, text, summarizer,
                   calls, summary_single, paragraphs, summaries,
                   combined_summary_text, summary_recursive, max_length,
                   summary_recursive_limited, exitCode, uncaught, failedStage,
                   fn, fnText, fnMax>>

NextSplit == ApplySplit

SpecSplit == InitSplit /\ [][NextSplit]_vars

----------------------------------------------------------------------------
(* Properties of limit_text_length *)

LimitReturned == pc = "returned" /\ fn = "limit_text_length"

\* text is longer than max_length and its first max_length characters hold no space
NoSpaceInPrefix(s, m) == Len(s) > m /\ \A i \in 1..m : s[i] # SP

\* r, a prefix of s, stops inside a word of s
EndsMidWord(s, r) == Len(r) < Len(s) /\ s[Len(r) + 1] # SP

\* C4: the result is never longer than max_length; when text is longer than
\* max_length and its prefix of that length holds no space the result has
\* exactly max_length characters; and a result that stops in the middle of a
\* word happens in that case only.
C4_LimitLength ==
    LimitReturned =>
        /\ Len(fnOut) <= fnMax
        /\ NoSpaceInPrefix(fnText, fnMax) => Len(fnOut) = fnMax
        /\ EndsMidWord(fnText, fnOut) => NoSpaceInPrefix(fnText, fnMax)

C4_Witness ==
    /\ LimitReturned
    /\ fnMax > 1
    /\ NoSpaceInPrefix(fnText, fnMax)
    /\ EndsMidWord(fnText, fnOut)
    /\ \E i \in 1..Len(fnText) : fnText[i] = SP

\* C5: when text is longer than max_length and the character of text at
\* index max_length is a space, the result is the whole prefix of length
\* max_length; limit_text_length("hello world foo", 11) is "hello world".
C5_KeepsFittingWord ==
    LimitReturned /\ Len(fnText) > fnMax /\ fnText[fnMax + 1] = SP
        => fnOut = SubSeq(fnText, 1, fnMax)

\* C9: the result is text itself when text has at most max_length
\* characters; otherwise it is the prefix of length max_length when that
\* prefix holds no space, and else the part of text before the last space
\* of that prefix.
C9_LimitResult ==
    LimitReturned =>
        /\ Len(fnText) <= fnMax => fnOut = fnText
        /\ NoSpaceInPrefix(fnText, fnMax) => fnOut = SubSeq(fnText, 1, fnMax)
        /\ Len(fnText) > fnMax /\ ~NoSpaceInPrefix(fnText, fnMax) =>
              /\ Len(fnOut) < fnMax
              /\ fnOut = SubSeq(fnText, 1, Len(fnOut))
              /\ fnText[Len(fnOut) + 1] = SP
              /\ \A j \in (Len(fnOut) + 2)..fnMax : fnText[j] # SP
        /\ fnText = HelloWorldFoo /\ fnMax = 8 => fnOut = Hello
        /\ fnText = HelloWorld /\ fnMax = 5 => fnOut = Hello

C9_Witness ==
    /\ LimitReturned
    /\ Len(fnText) > fnMax
    /\ Cardinality({i \in 1..fnMax : fnText[i] = SP}) >= 2
    /\ Len(fnOut) >= 3
    /\ fnOut[Len(fnOut)] # SP

----------------------------------------------------------------------------
(* Properties of split_text_into_paragraphs *)

SplitReturned == pc = "returned" /\ fn = "split_text_into_paragraphs"

\* number of newlines directly before index i of s
NewlinesBefore(s, i) ==
    LET others == {j \in 1..(i - 1) : s[j] # NL}
    IN  IF others = {} THEN i - 1 ELSE i - 1 - MaxOf(others)

\* the indices where an occurrence of the two-newline delimiter starts:
\* occurrences are counted from the left and do not overlap, so a run of
\* newlines holds one at every second index
DelimiterStarts(s) ==
    {i \in 1..(Len(s) - 1) :
        s[i] = NL /\ s[i + 1] = NL /\ NewlinesBefore(s, i) % 2 = 0}

\* the segments between the delimiters, as pairs <<first, last>> of indices
SegmentsOf(s) ==
    LET D == DelimiterStarts(s)
        starts == {1} \cup {d + 2 : d \in D}
        EndOf(a) == LET later == {d \in D : d >= a}
                    IN  IF later = {} THEN Len(s) ELSE MinOf(later) - 1
    IN  {<<a, EndOf(a)>> : a \in starts}

\* the non-blank segments, each narrowed to its first and last non-whitespace
TrimmedSegmentsOf(s) ==
    LET Inside(g) == {i \in g[1]..g[2] : s[i] \notin Whitespace}
    IN  {<<MinOf(Inside(g)), MaxOf(Inside(g))>> : g \in {h \in SegmentsOf(s) : Inside(h) # {}}}

\* C6: the result lists, in their order in the text, exactly the segments
\* between the two-newline delimiters that are not blank, each without its
\* leading and trailing whitespace; so every paragraph is non-empty and
\* neither starts nor ends with whitespace.
C6_SplitParagraphs ==
    SplitReturned =>
        LET T == TrimmedSegmentsOf(fnText)
        IN  /\ Len(fnOut) = Cardinality(T)
            /\ \A g \in T :
                  fnOut[1 + Cardinality({h \in T : h[1] < g[1]})]
                      = SubSeq(fnText, g[1], g[2])
            /\ \A i \in 1..Len(fnOut) :
                  /\ fnOut[i] # <<>>
                  /\ fnOut[i][1] \notin Whitespace
                  /\ fnOut[i][Len(fnOut[i])] \notin Whitespace
            /\ fnText = ABC => fnOut = << <<"A">>, <<"B">>, <<"C">> >>
            /\ fnText = BlankThenA => fnOut = << <<"A">> >>

C6_Witness ==
    /\ SplitReturned
    /\ Len(fnOut) = 2
    /\ Cardinality(SegmentsOf(fnText)) = 3
    /\ fnText[1] = SP

----------------------------------------------------------------------------
(* Properties of main *)

Done == pc = "done"

\* N: the number of paragraphs of the input file
ParagraphsOfInput == split_text_into_paragraphs(inputFile.content)

NParagraphs == Len(ParagraphsOfInput)

\* the input file is readable and empty, or holds whitespace only
InputBlank == inputFile.readable /\ \A i \in 1..Len(inputFile.content) :
                                        inputFile.content[i] \in Whitespace

\* what went wrong, read from the files and the history of the calls
ReadFailed == ~inputFile.readable \/ InputBlank

CallFailed(k) == Len(calls) >= k /\ ~calls[k].out.ok

SingleFailed == CallFailed(1)

\* with N the number of paragraphs of the input file
ParagraphFailed(N) == \E k \in 2..(N + 1) : CallFailed(k)

RecursiveFailed(N) == CallFailed(N + 2)

CreateFailed == failedStage = "create"

WriteFailed == failedStage = "write"

RECURSIVE OffsetOf(_, _)
\* where ss[i] starts in the strings of ss laid out with one character between
OffsetOf(ss, i) == IF i = 1 THEN 0 ELSE OffsetOf(ss, i - 1) + Len(ss[i - 1]) + 1

\* x is the strings of ss in order with a single space between neighbours
SpaceJoined(x, ss) ==
    IF ss = <<>> THEN x = <<>>
    ELSE /\ Len(x) = OffsetOf(ss, Len(ss)) + Len(ss[Len(ss)])
         /\ \A i \in 1..Len(ss) :
               SubSeq(x, OffsetOf(ss, i) + 1, OffsetOf(ss, i) + Len(ss[i])) = ss[i]
         /\ \A i \in 2..Len(ss) : x[OffsetOf(ss, i)] = SP

C2_ExitCodes ==
    Done =>
        LET N == NParagraphs
        IN  /\ ReadFailed => exitCode = 1
            /\ SingleFailed => exitCode = 2
            /\ ParagraphFailed(N) => exitCode = 3
            /\ RecursiveFailed(N) => exitCode = 4
            /\ WriteFailed => exitCode = 5
            /\ exitCode = 0 <=> ~(ReadFailed \/ CreateFailed \/ SingleFailed
                                    \/ ParagraphFailed(N) \/ RecursiveFailed(N)
                                    \/ WriteFailed)
            /\ exitCode > 1 => ~ReadFailed
            /\ exitCode > 2 => ~SingleFailed
            /\ exitCode > 3 => ~ParagraphFailed(N)
            /\ exitCode > 4 => ~RecursiveFailed(N)
            /\ exitCode \in 0..5

C2_Witness ==
    /\ Done
    /\ exitCode = 3
    /\ Len(calls) = 3
    /\ CallFailed(3)

\* C3: on an empty or whitespace-only input file main exits with code 1,
\* the output file stays as it was, and the summarizer is neither
\* instantiated nor called.
C3_BlankInput ==
    InputBlank =>
        /\ outputFile = outputBefore
        /\ ~summarizer
        /\ calls = <<>>
        /\ pc \in {"read", "done"}
        /\ Done => exitCode = 1 /\ ~uncaught

C3_Witness ==
    /\ Done
    /\ InputBlank
    /\ inputFile.content # <<>>
    /\ outputBefore.exists

\* C7: in a run that exits with code 0 the report's first section is the
\* single-pass summary, and its second section is a prefix of the summary
\* returned for the combined text, of at most (3 * len(text)) div 10
\* characters.
C7_ReportSections ==
    Done /\ exitCode = 0 =>
        LET ch == outputFile.chunks
            single == calls[1].out.value
            recursive == calls[NParagraphs + 2].out.value
        IN  /\ outputFile.exists
            /\ Len(ch) = 4
            /\ ch[1] = Header1
            /\ ch[3] = Header2
            /\ ch[2] = single \o <<NL, NL>>
            /\ \E k \in 0..Len(recursive) :
                  /\ ch[4] = SubSeq(recursive, 1, k) \o <<NL>>
                  /\ 10 * k <= 3 * Len(inputFile.content)

C7_Witness ==
    /\ Done
    /\ exitCode = 0
    /\ Len(outputFile.chunks[4]) > 1
    /\ Len(outputFile.chunks[4]) - 1 < Len(calls[NParagraphs + 2].out.value)
    /\ Len(calls[1].out.value) > Len(outputFile.chunks[4])

\* codes of the stages whose failure main catches
CodeOf(stage) ==
    CASE stage = "read" -> 1
      [] stage = "single" -> 2
      [] stage = "paragraphs" -> 3
      [] stage = "recursive" -> 4
      [] stage = "write" -> 5

\* the stage the failure of the finished run belongs to
FailedNow ==
    LET N == NParagraphs
    IN  IF ReadFailed THEN "read"
        ELSE IF CreateFailed THEN "create"
        ELSE IF SingleFailed THEN "single"
        ELSE IF ParagraphFailed(N) THEN "paragraphs"
        ELSE IF RecursiveFailed(N) THEN "recursive"
        ELSE IF WriteFailed THEN "write"
        ELSE "none"

CaughtStages == {"read", "single", "paragraphs", "recursive", "write"}

\* C8 as stated: every failure of a stage, the instantiation of the
\* summarizer included, is caught and turned into an exit code that differs
\* from stage to stage.
C8_EveryFailureCaughtDistinct ==
    Done =>
        LET failed == FailedNow
        IN  failed # "none" =>
               /\ ~uncaught
               /\ \A stage \in CaughtStages : exitCode = CodeOf(stage) => failed = stage

\* C8 amended: a failure of the read, the single-pass, the paragraph, the
\* recursive or the write stage is caught and turned into the exit code 1,
\* 2, 3, 4 or 5 of that stage, so among the caught failures the code names
\* the stage; a failure to instantiate the summarizer is not caught and the
\* process ends with status 1, the code of a failed read.
C8_CaughtFailuresDistinct ==
    Done =>
        LET failed == FailedNow
        IN  /\ failed \in CaughtStages =>
                  /\ ~uncaught
                  /\ exitCode = CodeOf(failed)
                  /\ failedStage = failed
            /\ ~uncaught /\ exitCode # 0 =>
                  /\ failed \in CaughtStages
                  /\ \A stage \in CaughtStages : exitCode = CodeOf(stage) => failed = stage
            /\ failed = "create" <=> uncaught
            /\ uncaught => exitCode = 1 /\ ~summarizer /\ calls = <<>>

C8_Witness ==
    /\ Done
    /\ exitCode = 4
    /\ FailedNow = "recursive"
    /\ NParagraphs = 2

\* C10: the output file changes in the write stage only: it is as it was
\* before the run while main is running, and after a run that ends with
\* code 1, 2, 3 or 4 or with an uncaught failure to instantiate the
\* summarizer; it has changed only after all N + 2 calls succeeded.
C10_OutputUntouched ==
    /\ ~Done \/ exitCode \in 1..4 \/ uncaught => outputFile = outputBefore
    /\ outputFile # outputBefore =>
          /\ Len(calls) = NParagraphs + 2
          /\ \A k \in 1..Len(calls) : calls[k].out.ok
          /\ failedStage \in {"none", "write"}

C10_Witness ==
    /\ Done
    /\ exitCode = 4
    /\ outputBefore.exists
    /\ Len(calls) = 4

====
